---- MODULE Spec2Model ----
(***************************************************************************)
(* Verification model of two storage primitives of the repository:         *)
(*                                                                         *)
(*  * ParallelDatabase (core/lib/merkle_tree/src/storage/parallel.rs): a   *)
(*    write-behind wrapper that hands patches to a persistence thread over *)
(*    a bounded channel and serves reads from its in-memory queue.         *)
(*    Specification: Spec.                                                 *)
(*  * MiniMerkleTree (core/lib/mini_merkle_tree/src/lib.rs): a growable,   *)
(*    trimmable in-memory Merkle tree.  Specification: SpecTree.           *)
(*                                                                         *)
(* Option<T> values are sets: {} is None and {x} is Some(x).               *)
(***************************************************************************)
EXTENDS Integers, Sequences, FiniteSets, TLC

VARIABLES
    \* ---- ParallelDatabase ----
    inner,               \* the underlying store, shared by `inner` and the worker's clone `database`
    command_sender,      \* TRUE while the SyncSender is alive
    command_receiver,    \* TRUE while the Receiver is alive
    channel,             \* commands buffered in the sync_channel
    persistence_handle,  \* TRUE while Option<JoinHandle> is Some
    commands,            \* VecDeque<PersistenceCommand> of the foreground
    fg,                  \* the foreground thread: its position and the operation in progress
    worker,              \* the persistence thread: its position and the command it holds
    accepted,            \* history: commands sent by apply_patch, in order
    applied,             \* history: commands the worker applied to the store, in order
    direct,              \* history: the store obtained by applying every accepted patch directly
    \* ---- MiniMerkleTree ----
    tree                 \* the tree under test together with its untrimmed clone

vars == <<inner, command_sender, command_receiver, channel, persistence_handle,
          commands, fg, worker, accepted, applied, direct, tree>>

dbvars == <<inner, command_sender, command_receiver, channel, persistence_handle,
            commands, fg, worker, accepted, applied, direct>>

----------------------------------------------------------------------------
(* Bounds of the model *)

\* number of apply_patch calls that get as far as sending a command
MaxPatches == 3
\* capacity handed to ParallelDatabase::new
buffer_capacity == 2

----------------------------------------------------------------------------
(* Data model *)

None == {}
Some(x) == {x}
Unwrap(o) == CHOOSE x \in o : TRUE

\* the version the wrapper was created for
updated_version == 7

Versions == {updated_version, updated_version + 1}

NodeKey(version, nibbles) == [version |-> version, nibbles |-> nibbles]

\* the node keys of the model: one of the tracked version, one of another version
TrackedKey == NodeKey(updated_version, 1)
ForeignKey == NodeKey(updated_version + 1, 1)
NodeKeys == {TrackedKey, ForeignKey}

\* PartialPatchSet: an optional root and a map NodeKey -> Node.  The i-th
\* patch carries root i and node i, so that every command is recognisable.
\* The producer's partial patch is a tree update (a root and a node) or
\* an empty update.
\* an `empty` patch that carries a default root
PartialPatchSet_default_root == [root |-> Some(0), nodes |-> [k \in {} |-> 0]]
\* PartialPatchSet::empty()
PartialPatchSet_empty == [root |-> None, nodes |-> [k \in {} |-> 0]]

PartialPatchSets(i) ==
    {[root |-> Some(i), nodes |-> [k \in {TrackedKey} |-> i]], PartialPatchSet_empty}

PatchSet(manifest, patches_by_version, version, stale_keys_by_version) ==
    [manifest |-> manifest, patches_by_version |-> patches_by_version,
     updated_version |-> version, stale_keys_by_version |-> stale_keys_by_version]

\* the patches of the upstream producer: a patch of the tracked version (it
\* lists a stale key exactly when it writes a node), or a manifest-only patch
\* with or without stale keys
ProducerPatchSets(i) ==
    {PatchSet(i, [v \in {updated_version} |-> pp], Some(updated_version),
              [v \in (IF DOMAIN pp.nodes = {} THEN {} ELSE {updated_version}) |-> <<TrackedKey>>]) :
        pp \in PartialPatchSets(i)}
    \cup
    {PatchSet(i, <<>>, None, [v \in D |-> <<TrackedKey>>]) : D \in SUBSET {updated_version}}

\* every shape of patch: each of updated_version, patches_by_version and
\* stale_keys_by_version names none, one or both of the versions
PatchShapes(i) ==
    {PatchSet(i, [v \in D |-> [root |-> Some(i), nodes |-> [k \in {TrackedKey} |-> i]]],
              uv, [v \in E |-> <<TrackedKey>>]) :
        uv \in {None} \cup {Some(v) : v \in Versions},
        D \in SUBSET Versions,
        E \in SUBSET Versions}

\* what apply_patch is handed as the i-th patch
PatchSets(i) == ProducerPatchSets(i) \cup PatchShapes(i)

\* PrunePatchSet: node keys to remove and the versions whose stale keys are removed
PrunePatchSets ==
    {[pruned_node_keys |-> {TrackedKey}, deleted_stale_key_versions |-> {updated_version}]}

----------------------------------------------------------------------------
(* The underlying store (Database / PruneDatabase of the wrapped DB) *)

InitialStore ==
    [manifest |-> Some(0),
     roots |-> [v \in Versions |-> IF v = updated_version THEN Some(0) ELSE None],
     nodes |-> [k \in NodeKeys |-> Some(0)],
     stale_keys |-> [v \in Versions |-> <<>>]]

\* Database::apply_patch of the wrapped store: atomic; the manifest is
\* overwritten, roots and nodes of the patched versions are written, stale
\* keys are appended.
InnerApplyPatch(store, patch) ==
    LET pbv == patch.patches_by_version
        sk == patch.stale_keys_by_version
    IN  [manifest |-> Some(patch.manifest),
         roots |-> [v \in Versions |->
                       IF v \in DOMAIN pbv /\ pbv[v].root # None
                       THEN pbv[v].root ELSE store.roots[v]],
         nodes |-> [k \in NodeKeys |->
                       IF \E v \in DOMAIN pbv : k \in DOMAIN pbv[v].nodes
                       THEN LET v == CHOOSE w \in DOMAIN pbv : k \in DOMAIN pbv[w].nodes
                            IN  Some(pbv[v].nodes[k])
                       ELSE store.nodes[k]],
         stale_keys |-> [v \in Versions |->
                       IF v \in DOMAIN sk THEN store.stale_keys[v] \o sk[v]
                       ELSE store.stale_keys[v]]]

\* PruneDatabase::prune of the wrapped store
InnerPrune(store, patch) ==
    [store EXCEPT
        !.nodes = [k \in NodeKeys |->
                      IF k \in patch.pruned_node_keys THEN None ELSE store.nodes[k]],
        !.stale_keys = [v \in Versions |->
                      IF v \in patch.deleted_stale_key_versions THEN <<>>
                      ELSE store.stale_keys[v]]]

----------------------------------------------------------------------------
(* ParallelDatabase: helpers *)

\* a count that misses the clone travelling through the channel
strong_count_worker_only(command) ==
    1 + (IF command.patch.arc \in {c.patch.arc : c \in worker.command} THEN 1 ELSE 0)

\* Arc::strong_count of a command's patch: the foreground's handle in
\* `commands`, plus the clone that travels through the channel and is held by
\* the worker until it finishes (or unwinds from) the loop body.
strong_count(command) ==
    LET in_channel == \E i \in 1..Len(channel) : channel[i].patch.arc = command.patch.arc
        in_worker == command.patch.arc \in {c.patch.arc : c \in worker.command}
    IN  1 + (IF in_channel \/ in_worker THEN 1 ELSE 0)

\* a predicate that also evicts a command the worker has yet to apply
retain_predicate_dropped(command) == strong_count(command) > 2
\* the predicate of `commands.retain(..)` (lines 89 and 212)
retain_predicate(command) == strong_count(command) > 1

RemoveAt(s, i) == SubSeq(s, 1, i - 1) \o SubSeq(s, i + 1, Len(s))

\* the worker failed: it panicked inside database.apply_patch
WorkerFailed == worker.pc \in {"unwind_receiver", "unwind_finish", "panicked"}

\* JoinHandle::is_finished
is_finished == worker.pc \in {"panicked", "exited"}

Idle(ret) == [pc |-> "idle", op |-> "none", arg |-> None, cur |-> 0, ret |-> ret]
\* the foreground panicked inside `op`
Aborted(op) == [pc |-> "aborted", op |-> op, arg |-> None, cur |-> 0, ret |-> "panic"]

\* the PersistenceCommand built from a checked patch (lines 225-239); `arc`
\* names the allocation of Arc::new
PersistenceCommand(patch, partial_patch) ==
    LET sk == patch.stale_keys_by_version
    IN  [manifest |-> patch.manifest,
         patch |-> [arc |-> Len(accepted) + 1,
                    root |-> partial_patch.root,
                    nodes |-> partial_patch.nodes],
         stale_keys |-> IF updated_version \in DOMAIN sk THEN sk[updated_version] ELSE <<>>]

\* an assertion that only looks for the tracked version
stale_keys_assertion_lax(patch) ==
    LET sk == patch.stale_keys_by_version
    IN  DOMAIN sk = {} \/ updated_version \in DOMAIN sk

\* the assertion on stale_keys_by_version (lines 226-230)
stale_keys_assertion(patch) ==
    LET sk == patch.stale_keys_by_version
    IN  \/ DOMAIN sk = {}
        \/ Cardinality(DOMAIN sk) = 1 /\ updated_version \in DOMAIN sk

\* the PatchSet the worker reconstitutes from a command (lines 71-76)
Reconstituted(command) ==
    [manifest |-> command.manifest,
     patches_by_version |->
        [v \in {updated_version} |-> [root |-> command.patch.root, nodes |-> command.patch.nodes]],
     updated_version |-> Some(updated_version),
     stale_keys_by_version |-> [v \in {updated_version} |-> command.stale_keys]]

----------------------------------------------------------------------------
(* ParallelDatabase: the foreground thread *)

\* apply_patch, lines 196-208 and 219-223: the assertions on the patch.  A
\* versioned patch goes on to garbage-collect the queue; a manifest-only one
\* goes straight to building the command.
apply_patch(patch) ==
    /\ fg.pc = "idle"
    /\ Len(accepted) < MaxPatches
    /\ IF patch.updated_version # None
       THEN IF /\ Unwrap(patch.updated_version) = updated_version
               /\ Cardinality(DOMAIN patch.patches_by_version) = 1
            THEN fg' = [pc |-> "retain", op |-> "apply_patch", arg |-> Some(patch),
                        cur |-> 1, ret |-> fg.ret]
            ELSE fg' = Aborted("apply_patch")
       ELSE IF /\ DOMAIN patch.patches_by_version = {}
               /\ stale_keys_assertion(patch)
            THEN fg' = [pc |-> "send", op |-> "apply_patch", arg |-> Some(patch),
                        cur |-> 0, ret |-> fg.ret]
            ELSE fg' = Aborted("apply_patch")
    /\ UNCHANGED <<inner, command_sender, command_receiver, channel, persistence_handle,
                   commands, worker, accepted, applied, direct, tree>>

\* one step of `commands.retain(|command| Arc::strong_count(&command.patch) > 1)`
\* (lines 88-89 and 211-212): the predicate is evaluated on one element
retain ==
    /\ fg.pc = "retain"
    /\ fg.cur <= Len(commands)
    /\ IF retain_predicate(commands[fg.cur])
       THEN /\ fg' = [fg EXCEPT !.cur = fg.cur + 1]
            /\ UNCHANGED commands
       ELSE /\ commands' = RemoveAt(commands, fg.cur)
            /\ UNCHANGED fg
    /\ UNCHANGED <<inner, command_sender, command_receiver, channel, persistence_handle,
                   worker, accepted, applied, direct, tree>>

\* apply_patch, lines 215-233, after the queue was garbage-collected: take the
\* patch of the updated version, check the stale keys
apply_patch_build ==
    /\ fg.pc = "retain"
    /\ fg.op = "apply_patch"
    /\ fg.cur > Len(commands)
    /\ LET patch == Unwrap(fg.arg)
       IN  IF /\ updated_version \in DOMAIN patch.patches_by_version
              /\ stale_keys_assertion(patch)
           THEN fg' = [fg EXCEPT !.pc = "send", !.cur = 0]
           ELSE fg' = Aborted("apply_patch")
    /\ UNCHANGED <<inner, command_sender, command_receiver, channel, persistence_handle,
                   commands, worker, accepted, applied, direct, tree>>

\* a channel without a bound
channel_never_full == FALSE
\* mpsc::sync_channel(buffer_capacity), line 48: the buffer is full
channel_full == Len(channel) >= buffer_capacity

\* a send that also writes the patch to the store through the foreground's handle
apply_patch_send_write_through ==
    /\ fg.pc = "send"
    /\ command_receiver
    /\ ~channel_full
    /\ LET patch == Unwrap(fg.arg)
           partial_patch == IF patch.updated_version # None
                            THEN patch.patches_by_version[updated_version]
                            ELSE PartialPatchSet_empty
           command == PersistenceCommand(patch, partial_patch)
       IN  /\ channel' = Append(channel, command)
           /\ commands' = Append(commands, command)
           /\ accepted' = Append(accepted, command)
           /\ direct' = InnerApplyPatch(direct, patch)
           /\ inner' = InnerApplyPatch(inner, patch)
    /\ fg' = Idle("apply_patch")
    /\ UNCHANGED <<command_sender, command_receiver, persistence_handle,
                   worker, applied, tree>>

\* apply_patch, lines 235-247: the command is sent (send blocks while the
\* channel is full) and pushed to the queue
apply_patch_send ==
    /\ fg.pc = "send"
    /\ command_receiver
    /\ ~channel_full
    /\ LET patch == Unwrap(fg.arg)
           partial_patch == IF patch.updated_version # None
                            THEN patch.patches_by_version[updated_version]
                            ELSE PartialPatchSet_empty
           command == PersistenceCommand(patch, partial_patch)
       IN  /\ channel' = Append(channel, command)
           /\ commands' = Append(commands, command)
           /\ accepted' = Append(accepted, command)
           /\ direct' = InnerApplyPatch(direct, patch)
    /\ fg' = Idle("apply_patch")
    /\ UNCHANGED <<inner, command_sender, command_receiver, persistence_handle,
                   worker, applied, tree>>

\* a send whose error is ignored: the command is queued and the call returns
apply_patch_send_error_ignored ==
    /\ fg.pc = "send"
    /\ ~command_receiver
    /\ LET patch == Unwrap(fg.arg)
           partial_patch == IF patch.updated_version # None
                            THEN patch.patches_by_version[updated_version]
                            ELSE PartialPatchSet_empty
       IN  commands' = Append(commands, PersistenceCommand(patch, partial_patch))
    /\ fg' = Idle("apply_patch")
    /\ UNCHANGED <<inner, command_sender, command_receiver, channel, persistence_handle,
                   worker, accepted, applied, direct, tree>>

\* apply_patch, lines 240-246: send fails because the receiver is gone; the
\* worker is joined and the foreground panics
apply_patch_send_failed ==
    /\ fg.pc = "send"
    /\ ~command_receiver
    /\ is_finished
    /\ persistence_handle' = FALSE
    /\ fg' = Aborted("apply_patch")
    /\ UNCHANGED <<inner, command_sender, command_receiver, channel,
                   commands, worker, accepted, applied, direct, tree>>

\* wait_sync, lines 93-104, once the queue is empty: the foreground state after
\* the check of the persistence thread (op is wait_sync or prune)
wait_sync_check(op, arg) ==
    IF ~persistence_handle \/ is_finished
    THEN Aborted(op)
    ELSE IF op = "prune"
         THEN [pc |-> "prune", op |-> "prune", arg |-> arg, cur |-> 0, ret |-> fg.ret]
         ELSE Idle("wait_sync")

\* wait_sync / prune are entered (lines 86-87, 274-276)
wait_sync_enter(op, arg) ==
    /\ fg.pc = "idle"
    /\ IF commands = <<>>
       THEN /\ fg' = wait_sync_check(op, arg)
            /\ persistence_handle' = (persistence_handle /\ ~is_finished)
       ELSE /\ fg' = [pc |-> "retain", op |-> op, arg |-> arg, cur |-> 1, ret |-> fg.ret]
            /\ UNCHANGED persistence_handle
    /\ UNCHANGED <<inner, command_sender, command_receiver, channel,
                   commands, worker, accepted, applied, direct, tree>>

wait_sync == wait_sync_enter("wait_sync", None)

\* wait_sync, lines 87-91: a retain pass is over; after the sleep the loop
\* condition is evaluated again
wait_sync_loop ==
    /\ fg.pc = "retain"
    /\ fg.op \in {"wait_sync", "prune"}
    /\ fg.cur > Len(commands)
    /\ IF commands = <<>>
       THEN /\ fg' = wait_sync_check(fg.op, fg.arg)
            /\ persistence_handle' = (persistence_handle /\ ~is_finished)
       ELSE /\ fg' = [fg EXCEPT !.cur = 1]
            /\ UNCHANGED persistence_handle
    /\ UNCHANGED <<inner, command_sender, command_receiver, channel,
                   commands, worker, accepted, applied, direct, tree>>

\* prune, lines 274-276: wait_sync first
prune(patch) ==
    wait_sync_enter("prune", Some(patch))

\* prune, line 277: self.inner.prune(patch)
prune_inner ==
    /\ fg.pc = "prune"
    /\ inner' = InnerPrune(inner, Unwrap(fg.arg))
    /\ direct' = InnerPrune(direct, Unwrap(fg.arg))
    /\ fg' = Idle("prune")
    /\ UNCHANGED <<command_sender, command_receiver, channel, persistence_handle,
                   commands, worker, accepted, applied, tree>>

\* join, lines 107-111: the handle is taken, the sender and the queue are dropped
join ==
    /\ fg.pc = "idle"
    /\ persistence_handle
    /\ persistence_handle' = FALSE
    /\ command_sender' = FALSE
    /\ commands' = <<>>
    /\ fg' = [pc |-> "join", op |-> "join", arg |-> None, cur |-> 0, ret |-> fg.ret]
    /\ UNCHANGED <<inner, command_receiver, channel, worker, accepted, applied, direct, tree>>

\* join that does not wait for the thread
join_return_early ==
    /\ fg.pc = "join"
    /\ fg' = [pc |-> "joined", op |-> "none", arg |-> None, cur |-> 0, ret |-> "join"]
    /\ UNCHANGED <<inner, command_sender, command_receiver, channel, persistence_handle,
                   commands, worker, accepted, applied, direct, tree>>

\* join, lines 112-113: join_handle.join() returns once the thread is over
join_return ==
    /\ fg.pc = "join"
    /\ is_finished
    /\ fg' = IF worker.pc = "panicked" THEN Aborted("join")
             ELSE [pc |-> "joined", op |-> "none", arg |-> None, cur |-> 0, ret |-> "join"]
    /\ UNCHANGED <<inner, command_sender, command_receiver, channel, persistence_handle,
                   commands, worker, accepted, applied, direct, tree>>

----------------------------------------------------------------------------
(* ParallelDatabase: the persistence thread (run_persistence) *)

\* a channel that hands out the newest buffered command
recv_index_newest == Len(channel)
\* which buffered command recv hands out: the oldest (mpsc is FIFO)
recv_index == 1

\* line 68: command_receiver.recv() returns a command
run_persistence_recv ==
    /\ worker.pc = "recv"
    /\ channel # <<>>
    /\ worker' = [pc |-> "apply", command |-> Some(channel[recv_index])]
    /\ channel' = RemoveAt(channel, recv_index)
    /\ UNCHANGED <<inner, command_sender, command_receiver, persistence_handle,
                   commands, fg, accepted, applied, direct, tree>>

\* lines 68 and 81: recv() fails because the sender is gone and the channel is
\* empty; the loop ends and the thread finishes
run_persistence_exit ==
    /\ worker.pc = "recv"
    /\ channel = <<>>
    /\ ~command_sender
    /\ worker' = [pc |-> "exited", command |-> None]
    /\ command_receiver' = FALSE
    /\ UNCHANGED <<inner, command_sender, channel, persistence_handle,
                   commands, fg, accepted, applied, direct, tree>>

\* lines 71-77: the patch is reconstituted and applied to the store
run_persistence_apply ==
    /\ worker.pc = "apply"
    /\ inner' = InnerApplyPatch(inner, Reconstituted(Unwrap(worker.command)))
    /\ applied' = Append(applied, Unwrap(worker.command))
    /\ worker' = [worker EXCEPT !.pc = "drop"]
    /\ UNCHANGED <<command_sender, command_receiver, channel, persistence_handle,
                   commands, fg, accepted, direct, tree>>

\* a loop body that keeps `command` alive until the next one is received
run_persistence_keep ==
    /\ worker.pc = "drop"
    /\ worker' = [worker EXCEPT !.pc = "recv"]
    /\ UNCHANGED <<inner, command_sender, command_receiver, channel, persistence_handle,
                   commands, fg, accepted, applied, direct, tree>>

\* lines 78-80: the loop body ends and `command` (its Arc) is dropped
run_persistence_drop ==
    /\ worker.pc = "drop"
    /\ worker' = [pc |-> "recv", command |-> None]
    /\ UNCHANGED <<inner, command_sender, command_receiver, channel, persistence_handle,
                   commands, fg, accepted, applied, direct, tree>>

\* line 77: database.apply_patch panics (the store is left as it was); the
\* unwinding drops `command` first
run_persistence_panic ==
    /\ worker.pc = "apply"
    /\ worker' = [pc |-> "unwind_receiver", command |-> None]
    /\ UNCHANGED <<inner, command_sender, command_receiver, channel, persistence_handle,
                   commands, fg, accepted, applied, direct, tree>>

\* the unwinding drops the receiver: the channel is disconnected and the
\* commands still buffered are dropped
run_persistence_unwind_receiver ==
    /\ worker.pc = "unwind_receiver"
    /\ command_receiver' = FALSE
    /\ channel' = <<>>
    /\ worker' = [worker EXCEPT !.pc = "unwind_finish"]
    /\ UNCHANGED <<inner, command_sender, persistence_handle,
                   commands, fg, accepted, applied, direct, tree>>

\* the thread is over: is_finished() turns true
run_persistence_unwind_finish ==
    /\ worker.pc = "unwind_finish"
    /\ worker' = [worker EXCEPT !.pc = "panicked"]
    /\ UNCHANGED <<inner, command_sender, command_receiver, channel, persistence_handle,
                   commands, fg, accepted, applied, direct, tree>>

----------------------------------------------------------------------------
(* ParallelDatabase: the specification *)

\* ParallelDatabase::new (lines 47-60)
new ==
    /\ inner = InitialStore
    /\ command_sender = TRUE
    /\ command_receiver = TRUE
    /\ channel = <<>>
    /\ persistence_handle = TRUE
    /\ commands = <<>>
    /\ fg = Idle("new")
    /\ worker = [pc |-> "recv", command |-> None]
    /\ accepted = <<>>
    /\ applied = <<>>
    /\ direct = InitialStore

TreeUnused == tree = <<>>

Init == new /\ TreeUnused

Next ==
    \/ \E patch \in PatchSets(Len(accepted) + 1) : apply_patch(patch)
    \/ retain
    \/ apply_patch_build
    \/ apply_patch_send
    \/ apply_patch_send_failed
    \/ wait_sync
    \/ wait_sync_loop
    \/ \E patch \in PrunePatchSets : prune(patch)
    \/ prune_inner
    \/ join
    \/ join_return
    \/ run_persistence_recv
    \/ run_persistence_exit
    \/ run_persistence_apply
    \/ run_persistence_drop
    \/ run_persistence_panic
    \/ run_persistence_unwind_receiver
    \/ run_persistence_unwind_finish

Spec == Init /\ [][Next]_vars

\* The wrapper with a worker whose database.apply_patch always returns, the
\* operating system scheduling the worker and the foreground thread fairly:
\* a step that stays possible is eventually taken.
NextLive ==
    \/ \E patch \in ProducerPatchSets(Len(accepted) + 1) : apply_patch(patch)
    \/ retain
    \/ apply_patch_build
    \/ apply_patch_send
    \/ wait_sync
    \/ wait_sync_loop
    \/ \E patch \in PrunePatchSets : prune(patch)
    \/ prune_inner
    \/ run_persistence_recv
    \/ run_persistence_apply
    \/ run_persistence_drop

Fairness ==
    /\ WF_vars(run_persistence_recv)
    /\ WF_vars(run_persistence_apply)
    /\ WF_vars(run_persistence_drop)
    /\ WF_vars(retain)
    /\ WF_vars(wait_sync_loop)

SpecLive == Init /\ [][NextLive]_vars /\ Fairness

----------------------------------------------------------------------------
(* ParallelDatabase: the Database getters, as the foreground evaluates them *)

Max(S) == CHOOSE x \in S : \A y \in S : y <= x

\* try_manifest (lines 118-125)
try_manifest ==
    IF commands # <<>> THEN Some(commands[Len(commands)].manifest) ELSE inner.manifest

\* try_root (lines 127-141)
try_root(version) ==
    IF version # updated_version THEN inner.roots[version]
    ELSE LET with_root == {i \in 1..Len(commands) : commands[i].patch.root # None}
         IN  IF with_root # {} THEN commands[Max(with_root)].patch.root
             ELSE inner.roots[version]

\* try_tree_node (lines 143-162)
try_tree_node(key) ==
    IF key.version # updated_version THEN inner.nodes[key]
    ELSE LET with_key == {i \in 1..Len(commands) : key \in DOMAIN commands[i].patch.nodes}
         IN  IF with_key # {} THEN Some(commands[Max(with_key)].patch.nodes[key])
             ELSE inner.nodes[key]

\* Database::tree_nodes of the wrapped store: one entry per key, in order
InnerTreeNodes(store, keys) == [i \in 1..Len(keys) |-> store.nodes[keys[i]]]

\* a scan that visits the oldest command first
nth_oldest(k) == k
\* the position in `commands` of the k-th command `iter().rev()` visits
nth_newest(k) == Len(commands) + 1 - k

\* tree_nodes, lines 165-176: `nodes` after the first `visited` commands of
\* the reversed queue were looked at
RECURSIVE tree_nodes_scan(_, _)
tree_nodes_scan(keys, visited) ==
    IF visited = 0 THEN [key_idx \in 1..Len(keys) |-> None]
    ELSE LET nodes == tree_nodes_scan(keys, visited - 1)
             command == commands[nth_newest(visited)]
         IN  [key_idx \in 1..Len(keys) |->
                 IF nodes[key_idx] # None THEN nodes[key_idx]
                 ELSE IF keys[key_idx] \in DOMAIN command.patch.nodes
                      THEN Some(command.patch.nodes[keys[key_idx]])
                      ELSE None]

\* tree_nodes (lines 164-190): the queue is scanned for every key, the keys
\* still missing are loaded from the underlying store in one call
tree_nodes(keys) ==
    LET nodes == tree_nodes_scan(keys, Len(commands))
        key_indexes == SelectSeq([i \in 1..Len(keys) |-> i], LAMBDA i : nodes[i] = None)
        missing_keys == [j \in 1..Len(key_indexes) |-> keys[key_indexes[j]]]
        inner_nodes == InnerTreeNodes(inner, missing_keys)
    IN  [key_idx \in 1..Len(keys) |->
            IF \E j \in 1..Len(key_indexes) : key_indexes[j] = key_idx
            THEN inner_nodes[CHOOSE j \in 1..Len(key_indexes) : key_indexes[j] = key_idx]
            ELSE nodes[key_idx]]

\* PruneDatabase::min_stale_key_version of the wrapped store: the least
\* version that has stale keys
InnerMinStaleKeyVersion(store) ==
    LET with_stale_keys == {v \in Versions : store.stale_keys[v] # <<>>}
    IN  IF with_stale_keys = {} THEN None
        ELSE Some(CHOOSE v \in with_stale_keys : \A w \in with_stale_keys : v <= w)

\* a test that asks for every command to have an empty stale key list
all_stale_keys_empty(queue) == \A i \in 1..Len(queue) : Len(queue[i].stale_keys) = 0
\* lines 253-256: commands.iter().any(|command| command.stale_keys.is_empty())
any_stale_keys_empty(queue) == \E i \in 1..Len(queue) : Len(queue[i].stale_keys) = 0

\* min_stale_key_version (lines 252-261)
min_stale_key_version ==
    IF any_stale_keys_empty(commands) THEN Some(updated_version)
    ELSE InnerMinStaleKeyVersion(inner)

----------------------------------------------------------------------------
(* MaybeParallel: a store that is wrapped in a ParallelDatabase on demand *)

\* store patches applied through MaybeParallel::Just before the promotion
MaxJustPatches == 1

\* the foreground holds MaybeParallel::Just(db): there is no thread, no
\* channel and no queue
Just(ret) == [pc |-> "just", op |-> "none", arg |-> None, cur |-> 0, ret |-> ret]

\* the variant of the wrapper the foreground holds; join consumes it
MaybeParallel_variant ==
    IF fg.pc = "just" THEN "Just"
    ELSE IF fg.pc \in {"join", "joined"} \/ fg.op = "join" THEN "consumed"
    ELSE "Parallel"

\* the patches handed to the wrapper as the i-th patch: the producer's, and
\* one of a version the ParallelDatabase does not track
MaybePatchSets(i) ==
    ProducerPatchSets(i) \cup
    {PatchSet(i, [v \in {updated_version + 1} |-> [root |-> Some(i), nodes |-> [k \in {} |-> 0]]],
              Some(updated_version + 1), <<>>)}

\* ParallelDatabase::new(db, updated_version, buffer_capacity) (lines 47-60),
\* called on a store that is in use
ParallelDatabase_new(db) ==
    /\ inner' = db
    /\ command_sender' = TRUE
    /\ command_receiver' = TRUE
    /\ channel' = <<>>
    /\ persistence_handle' = TRUE
    /\ commands' = <<>>
    /\ fg' = Idle("new")
    /\ worker' = [pc |-> "recv", command |-> None]
    /\ accepted' = <<>>
    /\ applied' = <<>>
    /\ direct' = db
    /\ UNCHANGED tree

\* a promotion that builds a ParallelDatabase whatever the variant is
parallelize_unconditional ==
    /\ fg.pc \in {"just", "idle"}
    /\ ParallelDatabase_new(inner)

\* parallelize (lines 303-311)
parallelize ==
    /\ fg.pc \in {"just", "idle"}
    /\ IF fg.pc = "just"
       THEN ParallelDatabase_new(inner)
       ELSE UNCHANGED vars

\* MaybeParallel::wait_sync (lines 288-292)
MaybeParallel_wait_sync ==
    IF fg.pc = "just"
    THEN /\ fg' = Just("wait_sync")
         /\ UNCHANGED <<inner, command_sender, command_receiver, channel, persistence_handle,
                        commands, worker, accepted, applied, direct, tree>>
    ELSE wait_sync

\* MaybeParallel::join (lines 294-299)
MaybeParallel_join ==
    IF fg.pc = "just"
    THEN /\ fg' = [pc |-> "joined", op |-> "none", arg |-> None, cur |-> 0, ret |-> "join"]
         /\ UNCHANGED <<inner, command_sender, command_receiver, channel, persistence_handle,
                        commands, worker, accepted, applied, direct, tree>>
    ELSE join

\* MaybeParallel::apply_patch (lines 354-359); Just hands the patch to the store
MaybeParallel_apply_patch(patch) ==
    IF fg.pc = "just"
    THEN /\ Len(inner.stale_keys[updated_version]) < MaxJustPatches
         /\ inner' = InnerApplyPatch(inner, patch)
         /\ direct' = InnerApplyPatch(direct, patch)
         /\ fg' = Just("apply_patch")
         /\ UNCHANGED <<command_sender, command_receiver, channel, persistence_handle,
                        commands, worker, accepted, applied, tree>>
    ELSE apply_patch(patch)

\* MaybeParallel::prune (lines 377-382)
MaybeParallel_prune(patch) ==
    IF fg.pc = "just"
    THEN /\ inner' = InnerPrune(inner, patch)
         /\ direct' = InnerPrune(direct, patch)
         /\ fg' = Just("prune")
         /\ UNCHANGED <<command_sender, command_receiver, channel, persistence_handle,
                        commands, worker, accepted, applied, tree>>
    ELSE prune(patch)

\* the wrapper starts as Just(db)
MaybeParallel_Just ==
    /\ inner = InitialStore
    /\ command_sender = FALSE
    /\ command_receiver = FALSE
    /\ channel = <<>>
    /\ persistence_handle = FALSE
    /\ commands = <<>>
    /\ fg = Just("new")
    /\ worker = [pc |-> "unspawned", command |-> None]
    /\ accepted = <<>>
    /\ applied = <<>>
    /\ direct = InitialStore

InitMaybe == MaybeParallel_Just /\ TreeUnused

NextMaybe ==
    \/ parallelize
    \/ \E patch \in MaybePatchSets(Len(accepted) + 1) : MaybeParallel_apply_patch(patch)
    \/ MaybeParallel_wait_sync
    \/ \E patch \in PrunePatchSets : MaybeParallel_prune(patch)
    \/ MaybeParallel_join
    \/ retain
    \/ apply_patch_build
    \/ apply_patch_send
    \/ apply_patch_send_failed
    \/ wait_sync_loop
    \/ prune_inner
    \/ join_return
    \/ run_persistence_recv
    \/ run_persistence_exit
    \/ run_persistence_apply
    \/ run_persistence_drop
    \/ run_persistence_panic
    \/ run_persistence_unwind_receiver
    \/ run_persistence_unwind_finish

SpecMaybe == InitMaybe /\ [][NextMaybe]_vars

\* PruneDatabase::stale_keys of the wrapped store
InnerStaleKeys(store, version) == store.stale_keys[version]

\* lines 267-269: commands.iter().flat_map(|command| command.stale_keys.clone())
RECURSIVE flat_map_stale_keys(_)
flat_map_stale_keys(queue) ==
    IF queue = <<>> THEN <<>>
    ELSE Head(queue).stale_keys \o flat_map_stale_keys(Tail(queue))

\* stale_keys (lines 263-272): the stale keys of every queued command, oldest
\* first, chained with the stale keys of the underlying store
stale_keys(version) ==
    IF version # updated_version THEN InnerStaleKeys(inner, version)
    ELSE flat_map_stale_keys(commands) \o InnerStaleKeys(inner, version)

----------------------------------------------------------------------------
(* MiniMerkleTree *)

\* Bounds of the tree model
\* leaves a tree receives in all (construction and push)
MaxLeaves == 5
\* leaves handed to the constructor
MaxInitLeaves == 2
\* min_tree_size is None or 2^d for d up to this bound
MaxMinDepth == 2

MAX_TREE_DEPTH == 32

RECURSIVE Pow2(_)
Pow2(n) == IF n = 0 THEN 1 ELSE 2 * Pow2(n - 1)

\* usize::next_power_of_two
RECURSIVE next_power_of_two_from(_, _)
next_power_of_two_from(n, p) == IF p >= n THEN p ELSE next_power_of_two_from(n, 2 * p)
next_power_of_two(n) == next_power_of_two_from(n, 1)

is_power_of_two(n) == \E d \in 0..MAX_TREE_DEPTH : d <= n /\ Pow2(d) = n

\* tree_depth_by_size: trailing_zeros of a positive size
RECURSIVE tree_depth_by_size(_)
tree_depth_by_size(tree_size) ==
    IF tree_size % 2 = 1 THEN 0 ELSE 1 + tree_depth_by_size(tree_size \div 2)

\* Hashes are terms: the hash of leaf bytes b is <<b>>, the compression of l
\* and r is <<l, r>> (so two hashes are equal only if they are built alike),
\* and H256::default() is << >>.  The leaf 0 stands for [0_u8; LEAF_SIZE].
hash_bytes(leaf) == <<leaf>>
compress(lhs, rhs) == <<lhs, rhs>>
H256_default == << >>
ZeroLeaf == 0

RECURSIVE empty_subtree_hash(_)
empty_subtree_hash(depth) ==
    IF depth = 0 THEN hash_bytes(ZeroLeaf)
    ELSE compress(empty_subtree_hash(depth - 1), empty_subtree_hash(depth - 1))

\* a padding that takes the hash of an empty leaf at every level
empty_hash_at_leaf_level(level) == empty_subtree_hash(0)
\* the padding of a level of odd length (lines 191 and 196-198)
empty_hash_at_level(level) == empty_subtree_hash(level)

\* a position that is the node's own, not its sibling's (the ^ 1 left out)
sibling_index_unflipped(start_index, index, overflow_checks) ==
    index + (start_index % 2)

\* the sibling's position in the working deque (line 203), in usize
\* arithmetic: ((start_index + index) ^ 1) - start_index + start_index % 2.
\* The subtraction is evaluated first; when it overflows, a build with
\* overflow checks panics (the result is -1 here) and a build without them
\* wraps, and the following addition wraps back to the exact value.
sibling_index(start_index, index, overflow_checks) ==
    LET position == start_index + index
        flipped == IF position % 2 = 0 THEN position + 1 ELSE position - 1
    IN  IF flipped < start_index /\ overflow_checks THEN -1
        ELSE (flipped - start_index) + (start_index % 2)

\* hashes.get(sibling).copied().unwrap_or_default() (line 204)
sibling_hash(hashes, sibling) ==
    IF sibling + 1 \in 1..Len(hashes) THEN hashes[sibling + 1] ELSE H256_default

NoPanic == "none"

\* the loop of compute_merkle_root_and_path (lines 190-220) from `level` on.
\* work: the deque `hashes`, start_index, end_index, the two paths, and the
\* panic the computation ran into, if any.
RECURSIVE compute_levels(_, _, _, _, _, _)
compute_levels(t, overflow_checks, work, level, with_start_path, with_end_path) ==
    IF work.panic # NoPanic \/ level = tree_depth_by_size(t.binary_tree_size) THEN work
    ELSE
    LET odd_start == work.start_index % 2 = 1
        cache_missing == odd_start /\ level + 1 > Len(t.cache)
        with_cache == IF odd_start /\ ~cache_missing
                      THEN <<t.cache[level + 1]>> \o work.hashes ELSE work.hashes
        padded == IF Len(with_cache) % 2 = 1
                  THEN Append(with_cache, empty_hash_at_level(level)) ELSE with_cache
        start_sibling == sibling_index(work.start_index, 0, overflow_checks)
        end_sibling == sibling_index(work.start_index, work.end_index, overflow_checks)
        overflow == \/ with_start_path /\ start_sibling < 0
                    \/ with_end_path /\ end_sibling < 0
        level_len == Len(padded) \div 2
    IN  IF cache_missing THEN [work EXCEPT !.panic = "index out of bounds"]
        ELSE IF overflow THEN [work EXCEPT !.panic = "attempt to subtract with overflow"]
        ELSE compute_levels(t, overflow_checks,
                [hashes |-> [i \in 1..level_len |-> compress(padded[2 * i - 1], padded[2 * i])],
                 start_index |-> work.start_index \div 2,
                 end_index |-> (work.end_index + (work.start_index % 2)) \div 2,
                 start_path |-> IF with_start_path
                                THEN Append(work.start_path, sibling_hash(padded, start_sibling))
                                ELSE work.start_path,
                 end_path |-> IF with_end_path
                              THEN Append(work.end_path, sibling_hash(padded, end_sibling))
                              ELSE work.end_path,
                 panic |-> NoPanic],
                level + 1, with_start_path, with_end_path)

\* compute_merkle_root_and_path (lines 173-224): the root, the paths asked
\* for, and the panic it ends in, if any (`hashes[0]` of an empty deque)
compute_merkle_root_and_path(t, overflow_checks, end_index, with_start_path, with_end_path) ==
    LET work == compute_levels(t, overflow_checks,
                    [hashes |-> t.hashes, start_index |-> t.start_index,
                     end_index |-> end_index, start_path |-> <<>>, end_path |-> <<>>,
                     panic |-> NoPanic],
                    0, with_start_path, with_end_path)
    IN  IF work.panic # NoPanic
        THEN [root |-> H256_default, start_path |-> <<>>, end_path |-> <<>>, panic |-> work.panic]
        ELSE IF work.hashes = <<>>
        THEN [root |-> H256_default, start_path |-> <<>>, end_path |-> <<>>,
              panic |-> "index out of bounds"]
        ELSE [root |-> work.hashes[1], start_path |-> work.start_path,
              end_path |-> work.end_path, panic |-> NoPanic]

\* merkle_root (lines 112-123)
merkle_root(t, overflow_checks) ==
    IF t.hashes = <<>>
    THEN LET depth == tree_depth_by_size(t.binary_tree_size)
         IN  IF t.start_index = 0
             THEN [root |-> empty_subtree_hash(depth), panic |-> NoPanic]
             ELSE IF depth + 1 \in 1..Len(t.cache)
                  THEN [root |-> t.cache[depth + 1], panic |-> NoPanic]
                  ELSE [root |-> H256_default, panic |-> "index out of bounds"]
    ELSE LET r == compute_merkle_root_and_path(t, overflow_checks, 0, FALSE, FALSE)
         IN  [root |-> r.root, panic |-> r.panic]

\* merkle_root_and_path (lines 127-131)
merkle_root_and_path(t, overflow_checks, index) ==
    compute_merkle_root_and_path(t, overflow_checks, index, FALSE, TRUE)

\* merkle_root_and_paths_for_range (lines 135-143), for length >= 1
merkle_root_and_paths_for_range(t, overflow_checks, length) ==
    compute_merkle_root_and_path(t, overflow_checks, length - 1, TRUE, TRUE)

\* with_hasher (lines 77-104); min_tree_size is None or Some(size)
with_hasher(leaves, min_tree_size) ==
    LET hashes == [i \in 1..Len(leaves) |-> hash_bytes(leaves[i])]
        size == next_power_of_two(Len(hashes))
        binary_tree_size == IF min_tree_size # None /\ Unwrap(min_tree_size) > size
                            THEN Unwrap(min_tree_size) ELSE size
    IN  [hashes |-> hashes, binary_tree_size |-> binary_tree_size,
         start_index |-> 0, cache |-> <<>>]

\* push that never grows the tree
pushed_without_doubling(t, leaf) ==
    [t EXCEPT !.hashes = Append(t.hashes, hash_bytes(leaf))]

\* push (lines 148-154) on the tree value t
pushed(t, leaf) ==
    LET hashes == Append(t.hashes, hash_bytes(leaf))
    IN  [t EXCEPT !.hashes = hashes,
                  !.binary_tree_size =
                      IF t.start_index + Len(hashes) > t.binary_tree_size
                      THEN 2 * t.binary_tree_size ELSE t.binary_tree_size]

\* trim_start that extends the cache it finds instead of replacing it
trimmed_extending_cache(t, count, computed) ==
    [t EXCEPT !.hashes = SubSeq(t.hashes, count + 1, Len(t.hashes)),
              !.start_index = t.start_index + count,
              !.cache = t.cache \o Append(computed.end_path, computed.root)]

\* trim_start that caches the path alone, without the root (line 169 left out)
trimmed_without_root(t, count, computed) ==
    [t EXCEPT !.hashes = SubSeq(t.hashes, count + 1, Len(t.hashes)),
              !.start_index = t.start_index + count,
              !.cache = computed.end_path]

\* trim_start (lines 160-171) on the tree value t, once the assertion holds
\* and the path computation `computed` went through
trimmed(t, count, computed) ==
    [t EXCEPT !.hashes = SubSeq(t.hashes, count + 1, Len(t.hashes)),
              !.start_index = t.start_index + count,
              !.cache = Append(computed.end_path, computed.root)]

\* the leaves a caller hands in at absolute position `index`: zero bytes, or
\* bytes that name the position
Leaves(index) == {ZeroLeaf, index + 1}

RECURSIVE LeafSequences(_)
LeafSequences(n) ==
    IF n = 0 THEN {<<>>}
    ELSE LeafSequences(n - 1) \cup
         {Append(leaves, leaf) : leaves \in {l \in LeafSequences(n - 1) : Len(l) = n - 1},
                                 leaf \in Leaves(n - 1)}

\* MiniMerkleTree::new: the tree, and a clone of it that is never trimmed.
\* overflow_checks tells whether the build panics on integer overflow.
MiniMerkleTree_new ==
    \E leaves \in LeafSequences(MaxInitLeaves),
       min_tree_size \in {None} \cup {Some(Pow2(d)) : d \in 0..MaxMinDepth},
       overflow_checks \in BOOLEAN :
        tree = [t |-> with_hasher(leaves, min_tree_size),
                clone |-> with_hasher(leaves, min_tree_size),
                overflow_checks |-> overflow_checks,
                op |-> "new", panic |-> NoPanic]

\* push: the leaf goes to the tree and to its clone
push(leaf) ==
    /\ tree.panic = NoPanic
    /\ Len(tree.clone.hashes) < MaxLeaves
    /\ tree' = [tree EXCEPT !.t = pushed(tree.t, leaf),
                            !.clone = pushed(tree.clone, leaf),
                            !.op = "push"]
    /\ UNCHANGED dbvars

\* trim_start(count) on the tree (the clone is left alone)
trim_start(count) ==
    /\ tree.panic = NoPanic
    /\ LET computed == compute_merkle_root_and_path(tree.t, tree.overflow_checks,
                                                    count, FALSE, TRUE)
       IN  IF Len(tree.t.hashes) < count
           THEN tree' = [tree EXCEPT !.op = "trim_start", !.panic = "not enough leaves to cache"]
           ELSE IF computed.panic # NoPanic
           THEN tree' = [tree EXCEPT !.op = "trim_start", !.panic = computed.panic]
           ELSE tree' = [tree EXCEPT !.t = trimmed(tree.t, count, computed),
                                     !.op = "trim_start"]
    /\ UNCHANGED dbvars

NextTree ==
    \/ \E leaf \in Leaves(Len(tree.clone.hashes)) : push(leaf)
    \/ \E count \in 0..(Len(tree.t.hashes) + 1) : trim_start(count)

\* the database is constructed and left alone
InitTree == MiniMerkleTree_new /\ new

SpecTree == InitTree /\ [][NextTree]_vars

----------------------------------------------------------------------------
(* MiniMerkleTree: the sizes of a tree of up to 2^MAX_TREE_DEPTH leaves *)

\* Of the tree only the number of retained hashes, start_index and
\* binary_tree_size are kept here (push and with_hasher read nothing else).
\* A usize value is the pair hi, lo that stands for hi * 2^16 + lo; usize is
\* 64 bits wide, and no value of this model comes near 2^64.

\* leaves pushed to a constructed tree
MaxLargePushes == 8
\* the constructor receives up to this many leaves less than 2^MAX_TREE_DEPTH
MaxBelowFull == 4
\* min_tree_size goes up to 2^(MAX_TREE_DEPTH + MaxAboveDepth)
MaxAboveDepth == 1

WideBase == Pow2(16)

Wide(hi, lo) == [hi |-> hi, lo |-> lo]

\* a + n and a - n for a small n (a - n is not below zero)
wide_add(a, n) == Wide(a.hi + ((a.lo + n) \div WideBase), (a.lo + n) % WideBase)
wide_sub(a, n) == IF a.lo >= n THEN Wide(a.hi, a.lo - n)
                  ELSE Wide(a.hi - 1, (a.lo + WideBase) - n)

wide_sum(a, b) == Wide(a.hi + b.hi + ((a.lo + b.lo) \div WideBase), (a.lo + b.lo) % WideBase)

wide_greater(a, b) == a.hi > b.hi \/ (a.hi = b.hi /\ a.lo > b.lo)

\* 2^d
wide_pow2(d) == IF d < 16 THEN Wide(0, Pow2(d)) ELSE Wide(Pow2(d - 16), 0)

\* usize::is_power_of_two
wide_is_power_of_two(a) ==
    \E d \in 0..(MAX_TREE_DEPTH + MaxAboveDepth + 1) : a = wide_pow2(d)

\* usize::next_power_of_two
RECURSIVE wide_next_power_of_two_from(_, _)
wide_next_power_of_two_from(a, d) ==
    IF ~wide_greater(a, wide_pow2(d)) THEN wide_pow2(d)
    ELSE wide_next_power_of_two_from(a, d + 1)
wide_next_power_of_two(a) == wide_next_power_of_two_from(a, 0)

\* tree_depth_by_size (lines 226-229) of a positive size
wide_tree_depth_by_size(a) ==
    IF a.lo # 0 THEN tree_depth_by_size(a.lo) ELSE 16 + tree_depth_by_size(a.hi)

\* with_hasher (lines 83-103) for `len` leaves: the sizes of the tree, or the
\* assertion that fails
with_hasher_sizes(len, min_tree_size) ==
    LET size == wide_next_power_of_two(len)
        binary_tree_size == IF min_tree_size # None /\ wide_greater(Unwrap(min_tree_size), size)
                            THEN Unwrap(min_tree_size) ELSE size
        t == [hashes_len |-> len, binary_tree_size |-> binary_tree_size,
              start_index |-> Wide(0, 0)]
    IN  IF min_tree_size # None /\ ~wide_is_power_of_two(Unwrap(min_tree_size))
        THEN [t |-> t, panic |-> "tree size must be a power of 2"]
        ELSE IF wide_tree_depth_by_size(binary_tree_size) > MAX_TREE_DEPTH
        THEN [t |-> t, panic |-> "Tree contains more than 2^32 items"]
        ELSE [t |-> t, panic |-> NoPanic]

\* push (lines 148-154) on the sizes t
pushed_sizes(t) ==
    LET hashes_len == wide_add(t.hashes_len, 1)
        grows == wide_greater(wide_sum(t.start_index, hashes_len), t.binary_tree_size)
    IN  [t |-> [t EXCEPT !.hashes_len = hashes_len,
                         !.binary_tree_size = IF grows THEN wide_sum(@, @) ELSE @],
         panic |-> NoPanic]

\* the numbers of leaves handed to the constructor: a few, or about
\* 2^MAX_TREE_DEPTH
LeafCounts ==
    {Wide(0, n) : n \in 0..MaxInitLeaves} \cup
    {wide_sub(wide_pow2(MAX_TREE_DEPTH), n) : n \in 0..MaxBelowFull} \cup
    {wide_add(wide_pow2(MAX_TREE_DEPTH), 1)}

\* min_tree_size: none, a power of two, or 3
MinTreeSizes ==
    {None, Some(Wide(0, 3))} \cup
    {Some(wide_pow2(d)) : d \in (0..MaxMinDepth) \cup
                                (MAX_TREE_DEPTH..(MAX_TREE_DEPTH + MaxAboveDepth))}

\* MiniMerkleTree::new, sizes only
MiniMerkleTree_new_sizes ==
    \E len \in LeafCounts, min_tree_size \in MinTreeSizes :
        LET built == with_hasher_sizes(len, min_tree_size)
        IN  tree = [t |-> built.t, pushes |-> 0, op |-> "new", panic |-> built.panic]

\* push, sizes only
push_sizes ==
    /\ tree.panic = NoPanic
    /\ tree.pushes < MaxLargePushes
    /\ LET result == pushed_sizes(tree.t)
       IN  tree' = [t |-> result.t, pushes |-> tree.pushes + 1, op |-> "push",
                    panic |-> result.panic]
    /\ UNCHANGED dbvars

NextTreeSizes == push_sizes

InitTreeSizes == MiniMerkleTree_new_sizes /\ new

SpecTreeSizes == InitTreeSizes /\ [][NextTreeSizes]_vars

----------------------------------------------------------------------------
(* ParallelDatabase: properties *)

IsPrefix(s, t) == Len(s) <= Len(t) /\ SubSeq(t, 1, Len(s)) = s

\* C1: once wait_sync has returned, and the worker has not failed, the store
\* (manifest, roots, nodes, stale keys) equals the store obtained by applying
\* the accepted patches directly, one after another in acceptance order.
C1_WaitSyncEqualsSequential ==
    (fg.pc = "idle" /\ fg.ret = "wait_sync" /\ ~WorkerFailed) => inner = direct

\* wait_sync returned after three patches, a tree update among them
C1_Witness ==
    /\ fg.pc = "idle" /\ fg.ret = "wait_sync" /\ ~WorkerFailed
    /\ Len(accepted) = 3
    /\ \E i \in 1..3 : accepted[i].patch.root # None
    /\ inner = direct

\* C2: whenever the foreground is between two operations (and the worker has
\* not failed), try_tree_node of a key of the updated version returns the node
\* of the newest accepted command that contains the key (unless a later prune
\* removed it), and the store's value when no accepted command contains it.
C2_NewestAcceptedNodeIsRead ==
    (fg.pc = "idle" /\ ~WorkerFailed) =>
        \A key \in NodeKeys : key.version = updated_version =>
            LET with_key == {i \in 1..Len(accepted) : key \in DOMAIN accepted[i].patch.nodes}
            IN  IF with_key = {}
                THEN try_tree_node(key) = inner.nodes[key]
                ELSE LET newest == Some(accepted[Max(with_key)].patch.nodes[key])
                     IN  direct.nodes[key] = newest => try_tree_node(key) = newest

\* C3: the commands applied to the store are, at every moment, a prefix of the
\* accepted commands: none skipped, reordered or applied twice.
C3_AppliedIsPrefixOfAccepted == IsPrefix(applied, accepted)

\* two of three accepted commands are applied, the third is still in flight
C3_Witness == Len(applied) = 2 /\ Len(accepted) = 3 /\ applied = SubSeq(accepted, 1, 2)

\* C8: when join returns, every accepted command was received and applied in
\* order (the store equals the directly updated one) and the worker has exited.
C8_JoinReturnsAfterDrain ==
    fg.pc = "joined" =>
        /\ applied = accepted
        /\ inner = direct
        /\ channel = <<>>
        /\ worker.pc = "exited"

\* join returned after three accepted patches
C8_Witness == fg.pc = "joined" /\ Len(accepted) = 3 /\ applied = accepted

\* the patches C9 says apply_patch rejects
C9_Rejected(patch) ==
    LET uv == patch.updated_version
        pbv == patch.patches_by_version
        sk == patch.stale_keys_by_version
    IN  \/ uv # None /\ Unwrap(uv) # updated_version
        \/ uv # None /\ DOMAIN pbv # {updated_version}
        \/ uv = None /\ DOMAIN pbv # {}
        \/ \E v \in DOMAIN sk : v # updated_version

\* C9: apply_patch with a rejected patch never gets to send: the call either
\* aborts at once or garbage-collects the queue and then aborts; no command is
\* sent or enqueued, and the store changes only by the worker applying an
\* earlier accepted command.  (The first step of a call leaves the patch in
\* fg'.arg unless it aborts; the later steps find it in fg.arg.)
C9_RejectedPatchAborts ==
    [][/\ (fg.pc = "idle" /\ fg'.op = "apply_patch") =>
            /\ (fg'.pc # "aborted" /\ C9_Rejected(Unwrap(fg'.arg))) => fg'.pc = "retain"
            /\ (fg'.pc = "aborted" \/ C9_Rejected(Unwrap(fg'.arg))) =>
                    /\ accepted' = accepted /\ commands' = commands /\ channel' = channel
                    /\ inner' = inner
       /\ (fg.op = "apply_patch" /\ fg.pc # "aborted" /\ C9_Rejected(Unwrap(fg.arg))) =>
            /\ fg.pc = "retain"
            /\ fg'.pc \in {"retain", "aborted"}
            /\ accepted' = accepted
            /\ Len(commands') <= Len(commands)
            /\ Len(channel') <= Len(channel)
            /\ inner' = inner \/ (Len(applied') = Len(applied) + 1 /\ IsPrefix(applied', accepted))
      ]_vars

\* apply_patch aborted on an assertion (the thread handle is still there) while
\* an earlier command is queued and in flight
C9_Witness ==
    /\ fg.pc = "aborted" /\ fg.op = "apply_patch" /\ persistence_handle
    /\ commands # <<>> /\ channel # <<>>

\* C10: inner.prune is executed only when the queue is empty and every
\* accepted command has been applied by the worker, and never while the worker
\* is inside database.apply_patch.
C10_PruneOnlyWhenSynced ==
    fg.pc = "prune" =>
        /\ commands = <<>>
        /\ applied = accepted
        /\ worker.pc # "apply"

\* C11: try_root never goes back.  The read that follows the acceptance of a
\* patch with a root returns that root (it is the newest of the queue), and no
\* read returns a root that was not accepted yet; so two successive reads are
\* in order exactly when every read between two operations returns the root
\* of the newest accepted patch that carries one.  Stated for a worker that
\* has not failed.
C11_TryRootNeverOlder ==
    (fg.pc = "idle" /\ ~WorkerFailed) =>
        LET with_root == {i \in 1..Len(accepted) : accepted[i].patch.root # None}
        IN  with_root # {} =>
                try_root(updated_version) = accepted[Max(with_root)].patch.root

\* C12: whenever the foreground is between two operations, try_manifest
\* returns the manifest of the most recently accepted patch, be it queued or
\* applied and evicted, and the manifest of the inner store when no patch was
\* accepted.
C12_TryManifestIsNewestAccepted ==
    fg.pc = "idle" =>
        try_manifest = IF accepted # <<>> THEN Some(accepted[Len(accepted)].manifest)
                       ELSE InitialStore.manifest

\* keys handed to tree_nodes in one call
MaxKeys == 2

\* the key lists of at most n keys (a key may occur twice)
RECURSIVE KeyLists(_)
KeyLists(n) ==
    IF n = 0 THEN {<<>>}
    ELSE KeyLists(n - 1) \cup
         {Append(keys, key) : keys \in {l \in KeyLists(n - 1) : Len(l) = n - 1},
                              key \in NodeKeys}

ManifestOnly(command) == command.patch.root = None /\ DOMAIN command.patch.nodes = {}

\* the root and node lookups return in the next state what they return now
LookupsUnchanged ==
    /\ \A version \in Versions : try_root(version)' = try_root(version)
    /\ \A key \in NodeKeys : try_tree_node(key)' = try_tree_node(key)

\* C14: a manifest-only patch changes no root and no node lookup, for any
\* version and key: not when apply_patch accepts and queues it, not when the
\* worker applies it to the store, not when it is evicted from the queue.
C14_ManifestOnlyKeepsLookups ==
    [][/\ (fg.pc = "send" /\ fg'.pc = "idle" /\ Unwrap(fg.arg).updated_version = None)
            => LookupsUnchanged
       /\ (worker.pc = "apply" /\ worker'.pc = "drop" /\ ManifestOnly(Unwrap(worker.command)))
            => LookupsUnchanged
       /\ (fg.pc = "retain" /\ Len(commands') < Len(commands) /\ ManifestOnly(commands[fg.cur]))
            => LookupsUnchanged
      ]_vars

\* a manifest-only patch (it alone yields a command with stale keys and no
\* node) was accepted after a patch with a root, applied by the worker and
\* evicted, and the root read is still the one of the first patch
C14_Witness ==
    /\ fg.pc = "idle"
    /\ Len(applied) = 2
    /\ applied[1].patch.root = Some(1)
    /\ ManifestOnly(applied[2]) /\ applied[2].stale_keys # <<>>
    /\ commands = <<>>
    /\ try_root(updated_version) = Some(1)
    /\ try_manifest = Some(2)

\* the commands accepted by apply_patch and not yet applied by the worker
InFlight == Len(accepted) - Len(applied)

\* C15, as stated: the number of in-flight commands never exceeds
\* buffer_capacity.
C15_InFlightAtMostCapacity == InFlight <= buffer_capacity

\* C15, amended: the channel never buffers more than buffer_capacity commands
\* and, with the one command the worker has received and is applying, at most
\* buffer_capacity + 1 commands are in flight; an apply_patch that finds the
\* buffer full does not move (it neither returns nor enqueues) while the
\* receiver is alive: its next step comes after the worker received a command.
C15_InFlightAtMostCapacityPlusOne ==
    /\ [](Len(channel) <= buffer_capacity /\ InFlight <= buffer_capacity + 1)
    /\ [][(fg.pc = "send" /\ channel_full /\ command_receiver) =>
              (fg' = fg /\ commands' = commands /\ accepted' = accepted)]_vars

\* the buffer is full and the worker holds one more command
C15_Witness ==
    /\ Len(channel) = buffer_capacity
    /\ worker.pc = "apply"
    /\ InFlight = buffer_capacity + 1
    /\ fg.pc = "idle" /\ fg.ret = "apply_patch"

\* C19: once the worker has terminated by panic, no apply_patch returns
\* normally and none adds a command to the queue; a call that gets as far as
\* sending finds the channel closed, joins the worker (the handle is taken)
\* and aborts.
C19_ApplyPatchAfterPanicAborts ==
    [][worker.pc = "panicked" =>
          /\ accepted' = accepted
          /\ Len(commands') <= Len(commands)
          /\ fg.op = "apply_patch" => fg'.pc # "idle"
          /\ (fg.pc = "send" /\ fg' # fg) => (fg'.pc = "aborted" /\ ~persistence_handle')
      ]_vars

\* apply_patch has aborted on the closed channel, after the worker panicked
\* with a command accepted and never applied
C19_Witness ==
    /\ worker.pc = "panicked"
    /\ fg.pc = "aborted" /\ fg.op = "apply_patch"
    /\ ~persistence_handle
    /\ Len(accepted) > Len(applied)

\* C20: wait_sync never returns normally when the worker has panicked or
\* exited with accepted commands left unapplied, however the unwinding of the
\* worker is interleaved with the eviction loop and the is_finished check.
C20_WaitSyncDetectsTermination ==
    (fg.pc = "idle" /\ fg.ret = "wait_sync") =>
        ~((WorkerFailed \/ worker.pc = "exited") /\ Len(applied) < Len(accepted))

\* C21: the promotion of a MaybeParallel is one-way and happens at most once.
\* parallelize on Just yields Parallel over the same store, with one worker
\* waiting for commands, an open channel and an empty queue; parallelize on
\* Parallel changes nothing; a Parallel wrapper stays Parallel until join
\* consumes it (its worker is never started again and its histories only
\* grow), and a consumed wrapper stays consumed.
C21_PromotionIsOneWay ==
    [][/\ (MaybeParallel_variant = "Just" /\ parallelize) =>
            /\ MaybeParallel_variant' = "Parallel"
            /\ worker' = [pc |-> "recv", command |-> None]
            /\ persistence_handle' /\ command_sender' /\ command_receiver'
            /\ commands' = <<>> /\ channel' = <<>>
            /\ inner' = inner
       /\ (MaybeParallel_variant = "Parallel" /\ parallelize) => UNCHANGED vars
       /\ (MaybeParallel_variant = "Parallel") =>
            /\ MaybeParallel_variant' \in {"Parallel", "consumed"}
            /\ (MaybeParallel_variant' = "consumed") => (fg.pc = "idle" /\ fg'.pc = "join")
            /\ (worker'.pc = "recv") => (worker.pc \in {"recv", "drop"})
            /\ IsPrefix(accepted, accepted') /\ IsPrefix(applied, applied')
       /\ (MaybeParallel_variant = "consumed") => (MaybeParallel_variant' = "consumed")
      ]_vars

\* a wrapper promoted after the plain store took a patch (the stale key in the
\* store is that patch's: the worker has applied nothing yet); two commands
\* are queued and the one worker holds the first
C21_Witness ==
    /\ MaybeParallel_variant = "Parallel"
    /\ fg.pc = "idle"
    /\ inner.stale_keys[updated_version] = <<TrackedKey>>
    /\ applied = <<>>
    /\ Len(commands) = 2
    /\ worker.pc = "apply"

\* C22: with a worker that is scheduled fairly and whose database.apply_patch
\* always returns, every wait_sync that finds commands in the queue (as many
\* as the channel holds, and the one the worker is applying) eventually
\* finds the queue empty and returns.
C22_WaitSyncReturns ==
    (fg.pc = "retain" /\ fg.op = "wait_sync") ~> (fg.pc = "idle" /\ fg.ret = "wait_sync")

\* wait_sync is in its loop while the channel is full and the worker is
\* applying one more command
C22_Witness ==
    /\ fg.pc = "retain" /\ fg.op = "wait_sync"
    /\ Len(channel) = buffer_capacity
    /\ worker.pc = "apply"
    /\ Len(commands) = buffer_capacity + 1

\* the worker has applied the command to the store
IsApplied(command) == \E k \in 1..Len(applied) : applied[k].patch.arc = command.patch.arc

\* the worker holds the command (it is in the loop body with it)
IsHeld(command) == command.patch.arc \in {c.patch.arc : c \in worker.command}

\* C23: while the worker has not panicked, the shared count of a queued
\* command's patch is 2 from the moment it is sent until the worker has
\* applied it and ended the loop body, and 1 afterwards; hence, as long as the
\* wrapper is not joined, every accepted command that garbage collection or
\* wait_sync removed from the queue has been applied to the store.
C23_CountTwoUntilApplied ==
    ~WorkerFailed =>
        /\ \A i \in 1..Len(commands) :
               strong_count(commands[i]) =
                   IF IsApplied(commands[i]) /\ ~IsHeld(commands[i]) THEN 1 ELSE 2
        /\ command_sender =>
               \A i \in 1..Len(accepted) :
                   (\A j \in 1..Len(commands) : commands[j].patch.arc # accepted[i].patch.arc)
                       => IsApplied(accepted[i])

\* the first accepted command was applied and evicted; of the two queued
\* ones the first is applied and dropped (count 1) and the second is being
\* applied (count 2)
C23_Witness ==
    /\ ~WorkerFailed /\ command_sender
    /\ Len(accepted) = 3 /\ Len(commands) = 2
    /\ commands[1] = accepted[2]
    /\ strong_count(commands[1]) = 1 /\ IsApplied(commands[1])
    /\ strong_count(commands[2]) = 2 /\ IsHeld(commands[2]) /\ ~IsApplied(commands[2])

\* the commands of a queue, as a set
QueuedCommands(queue) == {queue[i] : i \in 1..Len(queue)}

\* the garbage collection of a versioned apply_patch evicts every command
\* whose count was 1 when the call began: no command joins the queue during
\* the pass, a shared count never goes up, the pass looks at every command
\* once, evicts it if its count is 1, and ends only behind the last command
GarbageCollectionIsComplete ==
    /\ \A command \in QueuedCommands(commands) \cap QueuedCommands(commands') :
           strong_count(command)' <= strong_count(command)
    /\ (fg.pc = "retain" /\ fg.op = "apply_patch" /\ (fg' # fg \/ commands' # commands)) =>
           IF fg.cur <= Len(commands)
           THEN IF strong_count(commands[fg.cur]) = 1
                THEN commands' = RemoveAt(commands, fg.cur) /\ fg' = fg
                ELSE commands' = commands /\ fg' = [fg EXCEPT !.cur = fg.cur + 1]
           ELSE commands' = commands /\ fg'.pc \in {"send", "aborted"}

\* C24: every apply_patch that enqueues a command, versioned or
\* manifest-only, first evicts the queued commands whose count has fallen to
\* 1, so that on return the queue holds no command that was applied and
\* dropped before the call began.  A call that garbage-collects evicts them
\* all; a call that goes straight to sending appends to the queue it found
\* and so must have found no applied command of count 1.
C24_ApplyPatchEvictsApplied ==
    [][/\ GarbageCollectionIsComplete
       /\ (fg.pc = "idle" /\ fg'.op = "apply_patch" /\ fg'.pc = "send") =>
              \A command \in QueuedCommands(commands) :
                  ~(IsApplied(command) /\ strong_count(command) = 1)
      ]_vars

\* the part of C24 that concerns the versioned patches
C24_VersionedCallEvictsApplied == [][GarbageCollectionIsComplete]_vars

\* the step of the worker that applies the command it holds to the store
WorkerApplies ==
    /\ worker.pc = "apply" /\ worker'.pc = "drop"
    /\ inner' = InnerApplyPatch(inner, Reconstituted(Unwrap(worker.command)))
    /\ fg' = fg

\* C25, as stated: the worker is the only actor that mutates the store; no
\* foreground operation (apply_patch, reads, wait_sync, prune, join) writes to
\* it or deletes from it.
C25_WorkerIsSoleMutator == [][inner' # inner => WorkerApplies]_vars

\* C25, amended: the store changes only when the worker applies a command and
\* when the foreground's prune, after its wait_sync, deletes from the store
\* through the foreground's handle; apply_patch, wait_sync and join never
\* change it.
C25_WorkerAndPruneMutate ==
    [][inner' # inner =>
          \/ WorkerApplies
          \/ /\ fg.pc = "prune" /\ fg.op = "prune" /\ fg' = Idle("prune")
             /\ inner' = InnerPrune(inner, Unwrap(fg.arg))
             /\ worker' = worker
      ]_vars

\* prune has deleted the tracked node from a store to which the worker had
\* applied two commands
C25_Witness ==
    /\ fg.pc = "idle" /\ fg.ret = "prune"
    /\ Len(applied) = 2 /\ applied = accepted
    /\ TrackedKey \in DOMAIN applied[2].patch.nodes
    /\ inner.nodes[TrackedKey] = None

\* C30: whenever the foreground is between two operations,
\* min_stale_key_version returns Some(updated_version) if a command in the
\* queue has an empty stale key list, and otherwise what the inner store's
\* min_stale_key_version returns (also when queued commands carry stale keys
\* the store has not seen yet).
C30_MinStaleKeyVersion ==
    fg.pc = "idle" =>
        LET empty == {command \in QueuedCommands(commands) : command.stale_keys = <<>>}
        IN  min_stale_key_version =
                IF empty # {} THEN Some(updated_version) ELSE InnerMinStaleKeyVersion(inner)

\* the queue holds a command with a stale key and, behind it, one without;
\* the store has no stale keys, and the answer is the tracked version
C30_Witness ==
    /\ fg.pc = "idle"
    /\ Len(commands) = 2
    /\ commands[1].stale_keys # <<>> /\ commands[2].stale_keys = <<>>
    /\ InnerMinStaleKeyVersion(inner) = None
    /\ min_stale_key_version = Some(updated_version)

\* the queue is a subsequence of `accepted`: every queued command was
\* accepted, and the queued commands follow each other as they were accepted
\* (the allocation of the i-th accepted command is numbered i)
InAcceptanceOrder(queue) ==
    /\ \A i \in 1..Len(queue) :
           \E k \in 1..Len(accepted) : accepted[k] = queue[i] /\ queue[i].patch.arc = k
    /\ \A i, j \in 1..Len(queue) : i < j => queue[i].patch.arc < queue[j].patch.arc

\* the commands the worker has applied, and those of shared count 1, are at
\* the front of the queue
AppliedFormPrefix(queue) ==
    \A i, j \in 1..Len(queue) :
        i < j =>
            /\ IsApplied(queue[j]) => IsApplied(queue[i])
            /\ strong_count(queue[j]) = 1 => strong_count(queue[i]) = 1

\* a step of retain that evicts a command, while the worker is running,
\* evicts the one at the front
EvictsOnlyFront ==
    (fg.pc = "retain" /\ commands' # commands /\ ~WorkerFailed) => commands' = Tail(commands)

\* C31: in every reachable state the queue is in acceptance order and its
\* applied commands (those of shared count 1) form a prefix of it, no
\* unapplied command preceding an applied one; so the retain of apply_patch
\* and wait_sync only ever removes commands from the front of the queue,
\* never one that stands behind a command it has kept.
C31_EvictionRemovesFrontSegment ==
    /\ [](InAcceptanceOrder(commands) /\ AppliedFormPrefix(commands))
    /\ [][EvictsOnlyFront]_vars

\* the number of times `key` occurs in a list of keys
Occurrences(keys, key) == Cardinality({i \in 1..Len(keys) : keys[i] = key})

\* C32: whenever the foreground is between two operations (the wrapper is
\* not joined and the worker has not failed), stale_keys(updated_version)
\* reports each stale key of an accepted command exactly once, i.e. as often
\* as the store lists it once every accepted patch and prune is applied
\* directly; a command that is applied but still queued is not reported both
\* from the queue and from the store.
C32_StaleKeysReportedOnce ==
    (fg.pc = "idle" /\ command_sender /\ ~WorkerFailed) =>
        \A key \in NodeKeys :
            Occurrences(stale_keys(updated_version), key) =
                Occurrences(direct.stale_keys[updated_version], key)

----------------------------------------------------------------------------
(* MiniMerkleTree: properties *)

\* the root of the full binary tree of `size` leaf positions from `first` on,
\* computed level by level from the leaf hashes, a position that holds no
\* leaf counting as empty_subtree_hash(0)
RECURSIVE naive_root(_, _, _)
naive_root(hashes, first, size) ==
    IF size = 1
    THEN IF first <= Len(hashes) THEN hashes[first] ELSE empty_subtree_hash(0)
    ELSE compress(naive_root(hashes, first, size \div 2),
                  naive_root(hashes, first + size \div 2, size \div 2))

\* folding a Merkle path from a leaf hash at an absolute position
RECURSIVE fold_path(_, _, _)
fold_path(hash, position, path) ==
    IF path = <<>> THEN hash
    ELSE fold_path(IF position % 2 = 0 THEN compress(hash, Head(path))
                   ELSE compress(Head(path), hash),
                   position \div 2, Tail(path))

\* C4: a tree built from leaves with an optional power-of-two min_tree_size
\* and never trimmed has as merkle_root() the root of the full binary tree
\* over its binary_tree_size positions, padded with empty_subtree_hash(0).
C4_RootIsNaiveRoot ==
    LET r == merkle_root(tree.clone, tree.overflow_checks)
    IN  /\ r.panic = NoPanic
        /\ r.root = naive_root(tree.clone.hashes, 1, tree.clone.binary_tree_size)

C4_Witness ==
    /\ Len(tree.clone.hashes) = 5
    /\ tree.clone.binary_tree_size = 8
    /\ tree.clone.hashes[2] = hash_bytes(ZeroLeaf)
    /\ tree.clone.hashes[5] # hash_bytes(ZeroLeaf)
    /\ merkle_root(tree.clone, tree.overflow_checks).root
           = naive_root(tree.clone.hashes, 1, 8)

\* C5: in every reachable tree, for every index i below the number of
\* retained leaves, merkle_root_and_path(i) returns merkle_root() and a path
\* that folds from hashes[i] at position start_index + i to that root.
C5_PathFoldsToRoot ==
    tree.panic = NoPanic =>
        \A i \in 0..(Len(tree.t.hashes) - 1) :
            LET r == merkle_root_and_path(tree.t, tree.overflow_checks, i)
                root == merkle_root(tree.t, tree.overflow_checks)
            IN  /\ r.panic = NoPanic
                /\ root.panic = NoPanic
                /\ r.root = root.root
                /\ fold_path(tree.t.hashes[i + 1], tree.t.start_index + i, r.end_path)
                       = root.root

\* C6: in every reachable tree, for every count up to the number of retained
\* leaves, trim_start(count) completes and leaves merkle_root() unchanged.
C6_TrimStartKeepsRoot ==
    [][\A count \in 0..Len(tree.t.hashes) :
           trim_start(count) =>
               /\ tree'.panic = NoPanic
               /\ merkle_root(tree.t, tree.overflow_checks).panic = NoPanic
               /\ merkle_root(tree'.t, tree.overflow_checks)
                      = merkle_root(tree.t, tree.overflow_checks)]_vars

\* C7: a tree and its never-trimmed clone that receive the same pushes have
\* the same binary_tree_size and the same merkle_root() after every step.
C7_TrimmedEqualsUntrimmed ==
    tree.panic = NoPanic =>
        /\ tree.t.binary_tree_size = tree.clone.binary_tree_size
        /\ merkle_root(tree.t, tree.overflow_checks).panic = NoPanic
        /\ merkle_root(tree.t, tree.overflow_checks)
               = merkle_root(tree.clone, tree.overflow_checks)

C7_Witness ==
    /\ tree.panic = NoPanic
    /\ tree.op = "push"
    /\ tree.t.start_index = 3
    /\ Len(tree.t.hashes) = 2
    /\ tree.t.binary_tree_size = 8
    /\ merkle_root(tree.t, tree.overflow_checks)
           = merkle_root(tree.clone, tree.overflow_checks)

\* C16: in every reachable tree, for every length from 1 to the number of
\* retained leaves, merkle_root_and_paths_for_range(length) returns
\* merkle_root(), a left path that folds from hashes[0] at position
\* start_index to that root, and a right path that folds from
\* hashes[length - 1] at position start_index + length - 1 to that root.
C16_RangePathsFoldToRoot ==
    tree.panic = NoPanic =>
        \A length \in 1..Len(tree.t.hashes) :
            LET r == merkle_root_and_paths_for_range(tree.t, tree.overflow_checks, length)
                root == merkle_root(tree.t, tree.overflow_checks)
            IN  /\ r.panic = NoPanic
                /\ root.panic = NoPanic
                /\ r.root = root.root
                /\ fold_path(tree.t.hashes[1], tree.t.start_index, r.start_path) = root.root
                /\ fold_path(tree.t.hashes[length], tree.t.start_index + length - 1,
                             r.end_path) = root.root

\* C17: in every reachable tree, merkle_root_and_path(index) with an index at
\* or beyond the number of retained leaves panics, and so does
\* merkle_root_and_paths_for_range(length) with a length beyond it.
C17_OutOfRangeProofPanics ==
    tree.panic = NoPanic =>
        \A index \in Len(tree.t.hashes)..MaxLeaves :
            /\ merkle_root_and_path(tree.t, tree.overflow_checks, index).panic # NoPanic
            /\ merkle_root_and_paths_for_range(tree.t, tree.overflow_checks, index + 1).panic
                   # NoPanic

\* C18: after construction and after every completed push or trim_start,
\* binary_tree_size is a power of two, at least 1, and start_index + |hashes|
\* does not exceed it; binary_tree_size never decreases, and trim_start does
\* not change it.
C18_TreeSizeInvariant ==
    /\ [](/\ is_power_of_two(tree.t.binary_tree_size)
          /\ tree.t.binary_tree_size >= 1
          /\ tree.t.start_index + Len(tree.t.hashes) <= tree.t.binary_tree_size)
    /\ [][/\ tree'.t.binary_tree_size >= tree.t.binary_tree_size
          /\ tree'.op = "trim_start" => tree'.t.binary_tree_size = tree.t.binary_tree_size
         ]_vars

\* a trimmed tree that a push has just doubled
C18_Witness ==
    /\ tree.panic = NoPanic
    /\ tree.op = "push"
    /\ tree.t.start_index = 2
    /\ Len(tree.t.hashes) = 3
    /\ tree.t.binary_tree_size = 8

\* depth = log2 of the current binary_tree_size
depth == tree_depth_by_size(tree.t.binary_tree_size)

subtree_hash(level, index) ==
    naive_root(tree.clone.hashes, index * Pow2(level) + 1, Pow2(level))

\* start_index >> level
start_index_at(level) == tree.t.start_index \div Pow2(level)

\* C27: right after a completed trim_start, cache has depth + 1 entries and
\* its last entry is merkle_root(); and at every level below depth at which
\* start_index >> level is odd, the cache entry of the level is the hash of
\* the left sibling, the node (start_index >> level) - 1 that covers trimmed
\* leaves only.  The entries read by a root or path computation are exactly
\* those of the odd levels, and they stay the hashes of these nodes in every
\* later state, whatever is pushed after the trim.
C27_CacheHoldsLeftSiblings ==
    /\ (tree.op = "trim_start" /\ tree.panic = NoPanic) =>
           /\ Len(tree.t.cache) = depth + 1
           /\ merkle_root(tree.t, tree.overflow_checks).panic = NoPanic
           /\ tree.t.cache[depth + 1] = merkle_root(tree.t, tree.overflow_checks).root
    /\ \A level \in 0..(depth - 1) :
           (start_index_at(level) % 2 = 1) =>
               /\ level + 1 <= Len(tree.t.cache)
               /\ tree.t.cache[level + 1] = subtree_hash(level, start_index_at(level) - 1)

\* three leaves of a tree of size 4 were trimmed: start_index is odd at the
\* levels 0 and 1, and the cache holds the hash of leaf 2 and the hash of the
\* node over the leaves 0 and 1
C27_Witness ==
    /\ tree.op = "trim_start" /\ tree.panic = NoPanic
    /\ tree.t.start_index = 3
    /\ tree.t.binary_tree_size = 4
    /\ Len(tree.t.hashes) = 1
    /\ tree.t.cache[1] = tree.clone.hashes[3]
    /\ tree.t.cache[2] = compress(tree.clone.hashes[1], tree.clone.hashes[2])
    /\ tree.t.cache[3] = merkle_root(tree.clone, tree.overflow_checks).root

\* C28: after trim_start(2) on a full 4-leaf tree, merkle_root() is the
\* pre-trim root (the clone's), and merkle_root_and_path(0), the path of the
\* leaf at absolute index 2, has cache[0] as its level-0 sibling, taken as the
\* left sibling: the level-1 node of the leaf is compress(cache[0], leaf hash).
C28_TrimTwoOfFour ==
    (/\ tree.op = "trim_start" /\ tree.panic = NoPanic
     /\ tree.t.binary_tree_size = 4 /\ tree.t.start_index = 2 /\ Len(tree.t.hashes) = 2) =>
        LET root == merkle_root(tree.t, tree.overflow_checks)
            r == merkle_root_and_path(tree.t, tree.overflow_checks, 0)
        IN  /\ root.panic = NoPanic
            /\ root.root = merkle_root(tree.clone, tree.overflow_checks).root
            /\ r.panic = NoPanic
            /\ r.root = root.root
            /\ r.end_path[1] = tree.t.cache[1]
            /\ r.root = compress(r.end_path[2], compress(r.end_path[1], tree.t.hashes[1]))

\* C29: the depth of a tree stays at most MAX_TREE_DEPTH in every reachable
\* state: construction and every sequence of pushes leave a tree with
\* log2(binary_tree_size) <= 32, a push on a full tree of depth 32 aborting
\* instead of doubling binary_tree_size.
C29_DepthAtMostMax ==
    /\ [](tree.panic = NoPanic =>
             wide_tree_depth_by_size(tree.t.binary_tree_size) <= MAX_TREE_DEPTH)
    /\ [][(/\ tree.panic = NoPanic
           /\ tree.t.binary_tree_size = wide_pow2(MAX_TREE_DEPTH)
           /\ wide_sum(tree.t.start_index, tree.t.hashes_len) = tree.t.binary_tree_size
           /\ tree'.op = "push")
              => (tree'.panic # NoPanic /\ tree'.t = tree.t)]_vars

====
